---- MODULE Spec2Model ----
(***************************************************************************)
(* Njordr broker service: the per-user URL cursor (UrlStateHandler), the   *)
(* three update handlers of njordr_service/main.py and the call they make  *)
(* to the backend.                                                         *)
(*                                                                         *)
(* Strings are sequences of tokens.  A token is the separator "/", the dot *)
(* "." or an atom ("hello", "com", "usr", ...) standing for a non-empty    *)
(* run of characters that holds neither a separator nor a dot.             *)
(*   "/hello.com/"  is  <<"/", "hello", ".", "com", "/">>                  *)
(*                                                                         *)
(* A handler is a coroutine; other handlers run only while it is suspended *)
(* in an await.  Its steps are the stretches between those awaits:         *)
(*   delivery      the handler starts and runs up to state.get_data()      *)
(*   Enter         __aenter__ gets the data, the body sends the request    *)
(*   CallEnds      the awaited backend call returns or raises              *)
(*   Reply...      the awaited message.answer(...) is sent                 *)
(*   Exit          __aexit__: state.update_data(...)                       *)
(* aiogram.Dispatcher() is built with its defaults: a handler task per     *)
(* update, memory storage, no lock around the events of one user.          *)
(*                                                                         *)
(* Updates carry their bot and their user (message.bot and                 *)
(* message.from_user are set), and the link tables of the file systems     *)
(* have no loops.                                                          *)
(***************************************************************************)
EXTENDS Integers, Sequences, FiniteSets, Bags, TLC

(* ---------------------------------------------------------------------- *)
(* Bounds                                                                 *)
(* ---------------------------------------------------------------------- *)
MaxTasks == 2      \* update handlers that may be in flight at once
MaxUpdates == 3    \* updates delivered by the chat transport in one run

(* ---------------------------------------------------------------------- *)
(* Strings                                                                *)
(* ---------------------------------------------------------------------- *)
SEP == "/"
DOT == "."

\* Python's None, kept apart from every string (no string holds this token)
None == <<"#None">>

CURDIR == <<DOT>>
PARDIR == <<DOT, DOT>>

\* str.split("/"): the pieces between separators, empty pieces included
RECURSIVE SplitFrom(_, _, _)
SplitFrom(s, i, cur) ==
    IF i > Len(s) THEN <<cur>>
    ELSE IF s[i] = SEP THEN <<cur>> \o SplitFrom(s, i + 1, <<>>)
    ELSE SplitFrom(s, i + 1, Append(cur, s[i]))

Split(s) == SplitFrom(s, 1, <<>>)

\* posixpath.isabs
IsAbs(s) == Len(s) > 0 /\ s[1] = SEP

\* the parts pathlib keeps of a string: empty and "." pieces are dropped
Parts(s) == SelectSeq(Split(s), LAMBDA p : p # <<>> /\ p # CURDIR)

\* "/".join(parts) behind the root
RECURSIVE JoinSegs(_)
JoinSegs(segs) ==
    IF segs = <<>> THEN <<>>
    ELSE IF Len(segs) = 1 THEN segs[1]
    ELSE segs[1] \o <<SEP>> \o JoinSegs(Tail(segs))

\* PurePath.as_posix() of an absolute path given by its parts
AsPosix(segs) == <<SEP>> \o JoinSegs(segs)

(* ---------------------------------------------------------------------- *)
(* pathlib.Path(prev) / new                                               *)
(* ---------------------------------------------------------------------- *)
\* a path is [abs |-> BOOLEAN, parts |-> sequence of parts]
PathOf(s) == [abs |-> IsAbs(s), parts |-> Parts(s)]

\* Path.__truediv__: an anchored right operand replaces the left one
TrueDiv(p, new) ==
    IF IsAbs(new) THEN PathOf(new)
    ELSE [abs |-> p.abs, parts |-> p.parts \o Parts(new)]

(* ---------------------------------------------------------------------- *)
(* Path.resolve(): os.path.realpath against the process's file system     *)
(* ---------------------------------------------------------------------- *)
\* the file system is [cwd |-> parts of the working directory,
\*                     links |-> function from a path (its parts) to the
\*                               target string of the symbolic link there]
IsLink(filesys, path) == path \in DOMAIN filesys.links

\* posixpath._joinrealpath over the remaining parts
RECURSIVE JoinRealPath(_, _, _)
JoinRealPath(filesys, path, rest) ==
    IF rest = <<>> THEN path
    ELSE LET name == Head(rest)
             more == Tail(rest)
         IN  IF name = PARDIR
             THEN JoinRealPath(filesys,
                               IF path = <<>> THEN <<>>
                               ELSE SubSeq(path, 1, Len(path) - 1),
                               more)
             ELSE LET newpath == Append(path, name)
                  IN  IF ~IsLink(filesys, newpath)
                      THEN JoinRealPath(filesys, newpath, more)
                      ELSE LET target == filesys.links[newpath]
                               start  == IF IsAbs(target) THEN <<>> ELSE path
                           IN  JoinRealPath(filesys,
                                   JoinRealPath(filesys, start, Parts(target)),
                                   more)

\* mutant of Resolve: the joined path is made absolute but ".." is kept
ResolveKeepsDotDot(filesys, p) ==
    IF p.abs THEN p.parts ELSE filesys.cwd \o p.parts

\* Path.resolve(): a relative path is taken from the working directory
Resolve(filesys, p) ==
    JoinRealPath(filesys, IF p.abs THEN <<>> ELSE filesys.cwd, p.parts)

(* ---------------------------------------------------------------------- *)
(* Inputs                                                                 *)
(* ---------------------------------------------------------------------- *)
Bots == {"bot1"}
Users == {1, 2}

\* an FSM context belongs to one (bot, user) pair
Keys == Bots \X Users

\* endpoints carried by the buttons a user may click
Endpoints ==
    { <<"a">>, <<"bin">>,
      <<DOT, DOT>>,
      <<"/", "settings">>,
      <<"a", "/", "/", "b", "/">> }       \* "a//b/"

\* text typed by a user
Texts == { <<"hi">> }

\* fragments handed to UrlStateHandler by tests/test_url_handler.py, and more
TestFragments ==
    { <<>>, <<"/">>, <<DOT>>, <<"/", "/", "/", "/", "/">>,
      <<DOT, DOT, "/", DOT, DOT, "/">>,
      <<"/", "hello">>,
      <<"/", "hello", DOT, "com", "/">>,
      <<"/", "hello", DOT, "com", "/", "abc">>,
      <<"abc">>, <<DOT, DOT>>, <<"bin">>, <<"a", "/", "/", "b", "/">> }

\* cursors found in the state store when a test starts
TestCursors ==
    { <<"/">>, <<"/", "hello", DOT, "com">>, <<"/", "a", "/", "b">> }

\* the file systems the service may run on: working directory and links
NoLinks == [p \in {} |-> <<>>]

FsChoices ==
    { [cwd |-> <<>>, links |-> NoLinks],
      [cwd |-> << <<"srv">>, <<"app">> >>, links |-> NoLinks],
      [cwd |-> <<>>,
       links |-> [p \in { << <<"bin">> >> } |-> <<"usr", "/", "bin">>]] }

(* ---------------------------------------------------------------------- *)
(* State                                                                  *)
(* ---------------------------------------------------------------------- *)
VARIABLES
    fs,         \* the file system of the process (never changes)
    store,      \* FSM storage: store[key] is the "url" of key's data, or None
    tasks,      \* the handler coroutines in flight (a bag of records)
    finished,   \* the handler that ended in the latest step, if one did
    delivered,  \* number of updates delivered so far
    props,      \* generate_keyboard: the list it is called with
    keyboard,   \* generate_keyboard: what the call ended in
    clicked,    \* the decoded payload of the button clicked last
    cfg,        \* njordr_config.cfg.bots: the url of each configured bot
    phase,      \* where njordr_service() stands
    idx,        \* position of the loop njordr_service() is in
    BOTS_SESSIONS,  \* the session table: url/client pairs in insertion order
    clients,    \* every httpx.AsyncClient created, with its aclose() count
    calls       \* the make_service_call invocations in flight

service == <<fs, store, tasks, finished, delivered>>
rendering == <<props, keyboard, clicked>>
lifecycle == <<cfg, phase, idx, BOTS_SESSIONS, clients, calls>>
vars == <<service, rendering, lifecycle>>

NoKey == <<"none", 0>>
NoAction == [method |-> "none", endpoint |-> None, data |-> None]
NoRequest == [method |-> "none", bot |-> "none", path |-> None,
              assume_role |-> None, data |-> None]
NoReply == [via |-> "none", text |-> None, reply_markup |-> None]

\* a handler coroutine: its arguments, its locals and where it stands
NoTask ==
    [pc |-> "none", kind |-> "none", key |-> NoKey, action |-> NoAction,
     new_url |-> None, prev_url_required |-> FALSE, state_data |-> None,
     request |-> NoRequest, outcome |-> "none", exc |-> "none",
     reply |-> NoReply, requests |-> 0, replies |-> 0, update |-> "none"]

Running == BagToSet(tasks)

\* a specification of one component holds the other components' variables
\* at these values
NoRendering ==
    /\ props = <<>>
    /\ keyboard = [kind |-> "unset", exc |-> "none", inline_keyboard |-> <<>>]
    /\ clicked = [pressed |-> 0, ok |-> FALSE, action |-> NoAction]

NoLifecycle ==
    /\ cfg = <<>>
    /\ phase = "none"
    /\ idx = 0
    /\ BOTS_SESSIONS = <<>>
    /\ clients = <<>>
    /\ calls = {}

NoService ==
    /\ fs = [cwd |-> <<>>, links |-> <<>>]
    /\ store = <<>>
    /\ tasks = EmptyBag
    /\ finished = NoTask
    /\ delivered = 0


\* r takes a step and becomes q, still in flight
Step(r, q) ==
    /\ tasks' = (tasks (-) SetToBag({r})) (+) SetToBag({q})
    /\ finished' = NoTask

\* r takes its last step and ends as q
End(r, q) ==
    /\ tasks' = tasks (-) SetToBag({r})
    /\ finished' = q

(* ---------------------------------------------------------------------- *)
(* UrlStateHandler                                                        *)
(* ---------------------------------------------------------------------- *)
\* mutant of aenter_raises: the missing-cursor check is left out
aenter_never_raises(data, prev_url_required) == FALSE

\* __aenter__: the missing-cursor check
aenter_raises(data, prev_url_required) ==
    prev_url_required /\ data = None

\* mutant of aenter_url: the stored url is always reset before the join
aenter_url_reset(filesys, data, new_url, prev_url_required) ==
    IF new_url # None
    THEN AsPosix(Resolve(filesys, TrueDiv(PathOf(<<>>), new_url)))
    ELSE <<>>

\* __aenter__: the "url" left in the handler's copy of the state data
aenter_url(filesys, data, new_url, prev_url_required) ==
    LET base == IF ~prev_url_required \/ data = None THEN <<>> ELSE data
    IN  IF new_url # None
        THEN AsPosix(Resolve(filesys, TrueDiv(PathOf(base), new_url)))
        ELSE base

\* mutant of aexit_store: the url is stored only when the body did not raise
aexit_store_unless_raised(st, r) ==
    IF r.exc = "none" THEN [st EXCEPT ![r.key] = r.state_data] ELSE st

\* __aexit__: update_data(state_data) overwrites the stored "url"
aexit_store(st, r) ==
    [st EXCEPT ![r.key] = r.state_data]

(* ---------------------------------------------------------------------- *)
(* make_service_call                                                      *)
(* ---------------------------------------------------------------------- *)
\* headers = {'assume_role': f"tg:{user.id}"}
assume_role(user_id) ==
    <<"tg:", user_id>>

\* mutant of service_request: the url is built from the action's endpoint
service_request_endpoint(key, action, full_endpoint) ==
    [method |-> action.method, bot |-> key[1], path |-> action.endpoint,
     assume_role |-> assume_role(key[2]), data |-> action.data]

\* mutant of service_request: the header is set on the session of the bot
\* and not on the request, so a request made while another one of the bot
\* is in flight goes out with the header that one has set
service_request_session_header(key, action, full_endpoint) ==
    LET others == { r \in Running : r.pc = "await" /\ r.key[1] = key[1] }
    IN  [method |-> action.method, bot |-> key[1], path |-> full_endpoint,
         assume_role |-> IF others = {} THEN assume_role(key[2])
                         ELSE (CHOOSE r \in others : TRUE).request.assume_role,
         data |-> action.data]

\* the request handed to the backend session: getattr(client, method)(...)
service_request(key, action, full_endpoint) ==
    [method |-> action.method, bot |-> key[1], path |-> full_endpoint,
     assume_role |-> assume_role(key[2]), data |-> action.data]

\* what awaiting the request can end in
\*   "ConnectError"      caught, the call returns None
\*   "TimeoutException"  not caught, leaves the call as an exception
\*   "response"          a response arrives whose body is the envelope
\*                       {"msg": {"text": ENVELOPE_TEXT, "actions": []}}
\*   "malformed"         a response arrives whose body is not such an
\*                       envelope
\* Reading response.contect raises AttributeError for every response
\* (httpx.Response has no such attribute), before the body is looked at.
call_exception(outcome) ==
    CASE outcome = "ConnectError"     -> "none"
      [] outcome = "TimeoutException" -> "TimeoutException"
      [] outcome = "response"         -> "AttributeError"
      [] outcome = "malformed"        -> "AttributeError"

ENVELOPE_TEXT == <<"hello">>

INTERNAL_ERROR == <<"Internal error">>

(* ---------------------------------------------------------------------- *)
(* njordr.Action and the payload of a button                              *)
(* ---------------------------------------------------------------------- *)
\* An action is a record [method, endpoint, data]: method is a word,
\* endpoint a string, data a string or None.  The class njordr.Action is a
\* pydantic model; its fields and the methods it admits are those of the
\* button payload wire format.
QUOTE == "\""
BSL == "\\"

Methods == {"get", "post"}

\* mutant of Action_validates: the method is any string
Action_accepts_any(cb_data) ==
    TRUE

\* njordr.Action(**cb_data): validation of the fields
Action_validates(cb_data) ==
    cb_data.method \in Methods

\* a string inside a JSON string literal: quote and backslash are escaped
RECURSIVE EscapeFrom(_, _)
EscapeFrom(s, i) ==
    IF i > Len(s) THEN <<>>
    ELSE (IF s[i] \in {QUOTE, BSL} THEN <<BSL, s[i]>> ELSE <<s[i]>>)
             \o EscapeFrom(s, i + 1)

dumps_str(s) ==
    <<QUOTE>> \o EscapeFrom(s, 1) \o <<QUOTE>>

\* mutant of model_dump_json: string values are written without escaping
model_dump_json_raw(action) ==
    <<"{">> \o dumps_str(<<"method">>) \o <<":">>
            \o dumps_str(<<action.method>>) \o <<",">>
            \o dumps_str(<<"endpoint">>) \o <<":">>
            \o <<QUOTE>> \o action.endpoint \o <<QUOTE, ",">>
            \o dumps_str(<<"data">>) \o <<":">>
            \o (IF action.data = None THEN <<"null">>
                ELSE <<QUOTE>> \o action.data \o <<QUOTE>>)
            \o <<"}">>

\* prop.action.model_dump_json(): the compact JSON object of the fields
model_dump_json(action) ==
    <<"{">> \o dumps_str(<<"method">>) \o <<":">>
            \o dumps_str(<<action.method>>) \o <<",">>
            \o dumps_str(<<"endpoint">>) \o <<":">>
            \o dumps_str(action.endpoint) \o <<",">>
            \o dumps_str(<<"data">>) \o <<":">>
            \o (IF action.data = None THEN <<"null">>
                ELSE dumps_str(action.data))
            \o <<"}">>

NoParse == [ok |-> FALSE, val |-> None, next |-> 0]

\* the characters of a JSON string literal, s[i] being the first one after
\* the opening quote
RECURSIVE ReadChars(_, _, _)
ReadChars(s, i, acc) ==
    IF i > Len(s) THEN NoParse
    ELSE IF s[i] = QUOTE THEN [ok |-> TRUE, val |-> acc, next |-> i + 1]
    ELSE IF s[i] = BSL
         THEN IF i + 1 > Len(s) \/ s[i + 1] \notin {QUOTE, BSL}
              THEN NoParse
              ELSE ReadChars(s, i + 2, Append(acc, s[i + 1]))
    ELSE ReadChars(s, i + 1, Append(acc, s[i]))

\* a JSON value at s[i]: a string literal or null
ReadValue(s, i) ==
    IF i > Len(s) THEN NoParse
    ELSE IF s[i] = "null" THEN [ok |-> TRUE, val |-> None, next |-> i + 1]
    ELSE IF s[i] = QUOTE THEN ReadChars(s, i + 1, <<>>)
    ELSE NoParse

\* the members of a JSON object, s[i] being the opening quote of a key;
\* members is the set of <<key, value>> pairs read so far
RECURSIVE ReadMembers(_, _, _)
ReadMembers(s, i, members) ==
    IF i > Len(s) \/ s[i] # QUOTE THEN NoParse
    ELSE LET k == ReadChars(s, i + 1, <<>>)
         IN  IF ~k.ok \/ k.next > Len(s) \/ s[k.next] # ":" THEN NoParse
             ELSE LET v == ReadValue(s, k.next + 1)
                      all == { m \in members : m[1] # k.val }
                                 \cup { <<k.val, v.val>> }
                  IN  IF ~v.ok \/ v.next > Len(s) THEN NoParse
                      ELSE IF s[v.next] = "}"
                           THEN [ok |-> v.next = Len(s), val |-> all,
                                 next |-> v.next + 1]
                      ELSE IF s[v.next] = ","
                           THEN ReadMembers(s, v.next + 1, all)
                      ELSE NoParse

Member(members, key) ==
    IF \E m \in members : m[1] = key
    THEN (CHOOSE m \in members : m[1] = key)[2]
    ELSE None

\* json.loads(callback_query.data) and the keyword arguments Action(**cb_data)
\* takes from it: ok is FALSE where json.loads raises or a field is missing
\* or of the wrong type
json_loads(data) ==
    LET obj == IF Len(data) >= 2 /\ data[1] = "{"
               THEN ReadMembers(data, 2, {}) ELSE NoParse
        method == Member(obj.val, <<"method">>)
    IN  IF ~obj.ok THEN [ok |-> FALSE, cb_data |-> NoAction]
        ELSE [ok |-> /\ method # None
                     /\ Len(method) = 1
                     /\ Member(obj.val, <<"endpoint">>) # None,
              cb_data |-> [method |-> IF method # None /\ Len(method) = 1
                                      THEN method[1] ELSE "none",
                           endpoint |-> Member(obj.val, <<"endpoint">>),
                           data |-> Member(obj.val, <<"data">>)]]

(* ---------------------------------------------------------------------- *)
(* generate_keyboard                                                      *)
(* ---------------------------------------------------------------------- *)
\* what a call of generate_keyboard ends in:
\*   "None"    it returns None
\*   "markup"  it returns InlineKeyboardMarkup(inline_keyboard=buttons)
\*   "raised"  an exception leaves it
NoKeyboard == [kind |-> "unset", exc |-> "none", inline_keyboard |-> <<>>]

\* attribute access on a pydantic model: a name the class does not declare
\* raises AttributeError
HasAttr(obj, name) ==
    name \in DOMAIN obj

\* generate_keyboard(props): one row of one button for each prop, in order
generate_keyboard(prop_list) ==
    IF Len(prop_list) = 0
    THEN [NoKeyboard EXCEPT !.kind = "None"]
    ELSE IF \E i \in 1..Len(prop_list) : ~HasAttr(prop_list[i], "action")
    THEN [NoKeyboard EXCEPT !.kind = "raised", !.exc = "AttributeError"]
    ELSE [NoKeyboard EXCEPT
              !.kind = "markup",
              !.inline_keyboard =
                  [i \in 1..Len(prop_list) |->
                      << [text |-> prop_list[i].text,
                          callback_data |->
                              model_dump_json(prop_list[i].action)] >>]]

\* the button clicked last and what decoding its payload gave
NoClick == [pressed |-> 0, ok |-> FALSE, action |-> NoAction]

(* ---------------------------------------------------------------------- *)
(* njordr_service: the session table                                      *)
(* ---------------------------------------------------------------------- *)
\* BOTS_SESSIONS is a dict: a sequence of [url, client] entries in insertion
\* order; assigning to a url that has an entry replaces the entry's client
HasSession(sessions, url) ==
    \E i \in 1..Len(sessions) : sessions[i].url = url

SetSession(sessions, url, client) ==
    IF HasSession(sessions, url)
    THEN [i \in 1..Len(sessions) |->
             IF sessions[i].url = url
             THEN [url |-> url, client |-> client] ELSE sessions[i]]
    ELSE Append(sessions, [url |-> url, client |-> client])

\* mutant of session_of: every call is made on a client created for it,
\* which is none of the table (clients of the table are numbered from 1)
session_of_fresh(sessions, url) ==
    0

\* BOTS_SESSIONS[bot_config.url]
session_of(sessions, url) ==
    sessions[CHOOSE i \in 1..Len(sessions) : sessions[i].url = url].client

(* ---------------------------------------------------------------------- *)
(* The chat transport starts a handler for an update                      *)
(* ---------------------------------------------------------------------- *)
CanDeliver ==
    /\ BagCardinality(tasks) < MaxTasks
    /\ delivered < MaxUpdates

Deliver(r) ==
    /\ CanDeliver
    /\ tasks' = tasks (+) SetToBag({r})
    /\ finished' = NoTask
    /\ delivered' = delivered + 1
    /\ UNCHANGED <<fs, store, rendering, lifecycle>>

\* start_handler up to the state-store read of UrlStateHandler("", state, False)
start_handler(key) ==
    Deliver([NoTask EXCEPT !.pc = "enter", !.kind = "start", !.key = key,
                           !.new_url = <<>>, !.prev_url_required = FALSE])

\* mutant of message_handler: the handler is entered as start_handler is,
\* with UrlStateHandler("", state, False)
message_handler_resets(key, text) ==
    Deliver([NoTask EXCEPT !.pc = "enter", !.kind = "message", !.key = key,
                           !.action = [method |-> "post", endpoint |-> <<>>,
                                       data |-> text],
                           !.new_url = <<>>, !.prev_url_required = FALSE])

\* message_handler up to the state-store read of UrlStateHandler(None, state, True)
message_handler(key, text) ==
    Deliver([NoTask EXCEPT !.pc = "enter", !.kind = "message", !.key = key,
                           !.action = [method |-> "post", endpoint |-> <<>>,
                                       data |-> text],
                           !.new_url = None, !.prev_url_required = TRUE])

\* mutant of callback_query_handler: a click whose message is not
\* accessible is answered as one without payload is
callback_query_handler_answers(key, accessible, payload) ==
    IF ~accessible \/ payload = NoAction
    THEN Deliver([NoTask EXCEPT !.pc = "answer", !.kind = "callback_query",
                                !.key = key,
                                !.update = IF accessible THEN "no_data"
                                           ELSE "inaccessible"])
    ELSE IF ~Action_validates(payload)
    THEN /\ CanDeliver
         /\ finished' = [NoTask EXCEPT !.pc = "raised",
                                       !.kind = "callback_query", !.key = key,
                                       !.action = payload,
                                       !.exc = "ValidationError",
                                       !.update = "data"]
         /\ delivered' = delivered + 1
         /\ UNCHANGED <<fs, store, tasks, rendering, lifecycle>>
    ELSE Deliver([NoTask EXCEPT !.pc = "enter", !.kind = "callback_query",
                                !.key = key, !.action = payload,
                                !.new_url = payload.endpoint,
                                !.prev_url_required = TRUE,
                                !.update = "data"])

\* callback_query_handler up to its first await:
\*   the originating message is not accessible: return
\*   no payload: answer "Internal error" and return
\*   Action(**cb_data) does not validate: the exception leaves the handler
\*   otherwise UrlStateHandler(action.endpoint, state, True)
\* payload is cb_data, the object json.loads made of callback_query.data;
\* update records which of the cases the update is
callback_query_handler(key, accessible, payload) ==
    IF ~accessible
    THEN /\ CanDeliver
         /\ finished' = [NoTask EXCEPT !.pc = "returned",
                                       !.kind = "callback_query", !.key = key,
                                       !.update = "inaccessible"]
         /\ delivered' = delivered + 1
         /\ UNCHANGED <<fs, store, tasks, rendering, lifecycle>>
    ELSE IF payload = NoAction
    THEN Deliver([NoTask EXCEPT !.pc = "answer", !.kind = "callback_query",
                                !.key = key, !.update = "no_data"])
    ELSE IF ~Action_validates(payload)
    THEN /\ CanDeliver
         /\ finished' = [NoTask EXCEPT !.pc = "raised",
                                       !.kind = "callback_query", !.key = key,
                                       !.action = payload,
                                       !.exc = "ValidationError",
                                       !.update = "data"]
         /\ delivered' = delivered + 1
         /\ UNCHANGED <<fs, store, tasks, rendering, lifecycle>>
    ELSE Deliver([NoTask EXCEPT !.pc = "enter", !.kind = "callback_query",
                                !.key = key, !.action = payload,
                                !.new_url = payload.endpoint,
                                !.prev_url_required = TRUE,
                                !.update = "data"])

\* callback_query.message.answer("Internal error") of a click without payload
AnswerNoData(r) ==
    /\ r.pc = "answer"
    /\ End(r, [r EXCEPT !.pc = "returned",
                        !.reply = [via |-> "answer", text |-> INTERNAL_ERROR,
                                   reply_markup |-> None],
                        !.replies = @ + 1])
    /\ UNCHANGED <<fs, store, delivered, rendering, lifecycle>>

(* ---------------------------------------------------------------------- *)
(* The handler resumes with the state data                                *)
(* ---------------------------------------------------------------------- *)
\* __aenter__ raises "URL not found": the exception leaves the handler
EnterRaises(r) ==
    /\ r.pc = "enter"
    /\ r.kind # "test"
    /\ aenter_raises(store[r.key], r.prev_url_required)
    /\ End(r, [r EXCEPT !.pc = "raised", !.exc = "ValueError"])
    /\ UNCHANGED <<fs, store, delivered, rendering, lifecycle>>

\* __aenter__ returns the url; the body builds the action and
\* make_service_call sends the request
Enter(r) ==
    /\ r.pc = "enter"
    /\ r.kind # "test"
    /\ ~aenter_raises(store[r.key], r.prev_url_required)
    /\ LET url == aenter_url(fs, store[r.key], r.new_url, r.prev_url_required)
           action == IF r.kind = "start"
                     THEN [method |-> "get", endpoint |-> url, data |-> None]
                     ELSE r.action
       IN  Step(r, [r EXCEPT !.pc = "await",
                             !.state_data = url,
                             !.action = action,
                             !.request = service_request(r.key, action, url),
                             !.requests = @ + 1])
    /\ UNCHANGED <<fs, store, delivered, rendering, lifecycle>>

(* ---------------------------------------------------------------------- *)
(* The backend call ends                                                  *)
(* ---------------------------------------------------------------------- *)
CallEnds(r, outcome) ==
    /\ r.pc = "await"
    /\ Step(r, [r EXCEPT !.outcome = outcome,
                         !.exc = call_exception(outcome),
                         !.pc = IF call_exception(outcome) = "none"
                                THEN "reply" ELSE "exit"])
    /\ UNCHANGED <<fs, store, delivered, rendering, lifecycle>>

\* service_msg is None: message.answer("Internal error")
ReplyInternalError(r) ==
    /\ r.pc = "reply"
    /\ Step(r, [r EXCEPT !.pc = "exit",
                         !.reply = [via |-> "answer", text |-> INTERNAL_ERROR,
                                   reply_markup |-> None],
                        !.replies = @ + 1])
    /\ UNCHANGED <<fs, store, delivered, rendering, lifecycle>>

\* __aexit__, entered when the body returns and when it raises
Exit(r) ==
    /\ r.pc = "exit"
    /\ r.kind # "test"
    /\ store' = aexit_store(store, r)
    /\ End(r, [r EXCEPT !.pc = IF r.exc = "none" THEN "returned" ELSE "raised"])
    /\ UNCHANGED <<fs, delivered, rendering, lifecycle>>

(* ---------------------------------------------------------------------- *)
(* The service                                                            *)
(* ---------------------------------------------------------------------- *)
Outcomes == {"ConnectError", "TimeoutException", "response", "malformed"}

\* payloads of the buttons: a decoded action, one naming a method that is
\* no method of an action, or NoAction for a click whose
\* callback_query.data is None
Payloads ==
    { [method |-> "get", endpoint |-> e, data |-> None] : e \in Endpoints }
        \cup { [method |-> "delete", endpoint |-> <<"a">>, data |-> None] }
        \cup {NoAction}

Init ==
    /\ fs \in FsChoices
    /\ store = [k \in Keys |-> None]
    /\ tasks = EmptyBag
    /\ finished = NoTask
    /\ delivered = 0
    /\ NoRendering
    /\ NoLifecycle

Next ==
    \/ \E k \in Keys : start_handler(k)
    \/ \E k \in Keys, x \in Texts : message_handler(k, x)
    \/ \E k \in Keys, p \in Payloads : callback_query_handler(k, TRUE, p)
    \/ \E k \in Keys : callback_query_handler(k, FALSE, NoAction)
    \/ \E r \in Running : AnswerNoData(r)
    \/ \E r \in Running : EnterRaises(r)
    \/ \E r \in Running : Enter(r)
    \/ \E r \in Running, o \in Outcomes : CallEnds(r, o)
    \/ \E r \in Running : ReplyInternalError(r)
    \/ \E r \in Running : Exit(r)

Spec == Init /\ [][Next]_vars

(* ---------------------------------------------------------------------- *)
(* UrlStateHandler on its own, as tests/test_url_handler.py drives it     *)
(* ---------------------------------------------------------------------- *)
TestKey == <<"bot1", 1>>

TestTask(new_url, prev_url_required) ==
    [NoTask EXCEPT !.pc = "enter", !.kind = "test", !.key = TestKey,
                   !.new_url = new_url,
                   !.prev_url_required = prev_url_required]

\* async with UrlStateHandler(...) as url: __aenter__ raises
TestEnterRaises(r) ==
    /\ r.pc = "enter"
    /\ r.kind = "test"
    /\ aenter_raises(store[r.key], r.prev_url_required)
    /\ End(r, [r EXCEPT !.pc = "raised", !.exc = "ValueError"])
    /\ UNCHANGED <<fs, store, delivered, rendering, lifecycle>>

\* async with UrlStateHandler(...) as url: __aenter__ yields url
TestEnter(r) ==
    /\ r.pc = "enter"
    /\ r.kind = "test"
    /\ ~aenter_raises(store[r.key], r.prev_url_required)
    /\ Step(r, [r EXCEPT !.pc = "exit",
                         !.state_data = aenter_url(fs, store[r.key], r.new_url,
                                                   r.prev_url_required)])
    /\ UNCHANGED <<fs, store, delivered, rendering, lifecycle>>

\* the with block ends: __aexit__
TestExit(r) ==
    /\ r.pc = "exit"
    /\ r.kind = "test"
    /\ store' = aexit_store(store, r)
    /\ End(r, [r EXCEPT !.pc = "returned"])
    /\ UNCHANGED <<fs, delivered, rendering, lifecycle>>

\* the empty fragment is applied to the cursor a first use has stored
TestReapply ==
    /\ finished.kind = "test"
    /\ finished.pc = "returned"
    /\ finished.new_url # None
    /\ delivered = 1
    /\ tasks' = SetToBag({TestTask(<<>>, TRUE)})
    /\ finished' = NoTask
    /\ delivered' = delivered + 1
    /\ UNCHANGED <<fs, store, rendering, lifecycle>>

InitUrl ==
    /\ fs \in FsChoices
    /\ \E c \in TestCursors \cup {None} :
           store = [k \in Keys |-> IF k = TestKey THEN c ELSE None]
    /\ \E f \in TestFragments \cup {None}, req \in BOOLEAN :
           tasks = SetToBag({TestTask(f, req)})
    /\ finished = NoTask
    /\ delivered = 1
    /\ NoRendering
    /\ NoLifecycle

NextUrl ==
    \/ \E r \in Running : TestEnterRaises(r)
    \/ \E r \in Running : TestEnter(r)
    \/ \E r \in Running : TestExit(r)
    \/ TestReapply

SpecUrl == InitUrl /\ [][NextUrl]_vars

(* ---------------------------------------------------------------------- *)
(* generate_keyboard and the click on one of its buttons                  *)
(* ---------------------------------------------------------------------- *)
MaxProps == 2

LONG_SEGMENT == "reports-archive-2023-quarter-4"

\* the actions the props of a service message carry
KeyboardActions ==
    { [method |-> "get", endpoint |-> <<>>, data |-> None],
      [method |-> "get", endpoint |-> <<"/", "settings">>, data |-> None],
      [method |-> "post", endpoint |-> <<"a">>,
       data |-> <<"say", QUOTE, "hi", QUOTE>>],
      [method |-> "post", endpoint |-> <<>>, data |-> <<"a", BSL, QUOTE>>],
      [method |-> "get", endpoint |-> <<"/", LONG_SEGMENT>>, data |-> None] }

\* the props generate_keyboard is handed: objects with the attributes it
\* reads (text, action), and a PropModel as lib/proto.py declares it
\* (text, action_url)
PropChoices ==
    { [text |-> <<"Go">>, action |-> a] : a \in KeyboardActions }
        \cup { [text |-> <<"Go">>, action_url |-> <<"/", "settings">>] }

PropLists ==
    UNION { [1..n -> PropChoices] : n \in 0..MaxProps }

InitKeyboard ==
    /\ props \in PropLists
    /\ keyboard = NoKeyboard
    /\ clicked = NoClick
    /\ NoService
    /\ NoLifecycle

\* the handler calls generate_keyboard(service_msg.props)
Render ==
    /\ keyboard.kind = "unset"
    /\ keyboard' = generate_keyboard(props)
    /\ UNCHANGED <<props, clicked, service, lifecycle>>

\* the user clicks button i of the keyboard: callback_query_handler decodes
\* its payload with json.loads and Action(**cb_data)
Click(i) ==
    /\ keyboard.kind = "markup"
    /\ i \in 1..Len(keyboard.inline_keyboard)
    /\ LET loaded == json_loads(keyboard.inline_keyboard[i][1].callback_data)
       IN  clicked' = [pressed |-> i,
                       ok |-> loaded.ok /\ Action_validates(loaded.cb_data),
                       action |-> loaded.cb_data]
    /\ UNCHANGED <<props, keyboard, service, lifecycle>>

NextKeyboard ==
    \/ Render
    \/ \E i \in 1..MaxProps : Click(i)

SpecKeyboard == InitKeyboard /\ [][NextKeyboard]_vars

(* ---------------------------------------------------------------------- *)
(* njordr_service: startup, polling, shutdown                             *)
(* ---------------------------------------------------------------------- *)
MaxBots == 2

Urls == {"https://svc1", "https://svc2"}

\* njordr_config.cfg.bots.values(): the url of each bot, in order
Configs ==
    UNION { [1..n -> Urls] : n \in 1..MaxBots }

InitLife ==
    /\ cfg \in Configs
    /\ phase = "startup"
    /\ idx = 0
    /\ BOTS_SESSIONS = <<>>
    /\ clients = <<>>
    /\ calls = {}
    /\ NoService
    /\ NoRendering

\* one turn of the loop over the bots:
\* BOTS_SESSIONS[bot_config.url] = httpx.AsyncClient(...)
CreateSession ==
    /\ phase = "startup"
    /\ idx < Len(cfg)
    /\ clients' = Append(clients, [url |-> cfg[idx + 1], aclose |-> 0])
    /\ BOTS_SESSIONS' = SetSession(BOTS_SESSIONS, cfg[idx + 1],
                                   Len(clients) + 1)
    /\ idx' = idx + 1
    /\ UNCHANGED <<cfg, phase, calls, service, rendering>>

\* the loop is over: dp.start_polling(*bots) starts to dispatch updates
start_polling ==
    /\ phase = "startup"
    /\ idx = Len(cfg)
    /\ phase' = "polling"
    /\ UNCHANGED <<cfg, idx, BOTS_SESSIONS, clients, calls, service, rendering>>

\* a handler of an update of bot for user calls make_service_call, which
\* takes the client of the bot's url from the table and awaits its request
make_service_call(bot, user) ==
    /\ phase = "polling"
    /\ bot \in 1..Len(cfg)
    /\ LET call == [bot |-> bot, user |-> user,
                    client |-> session_of(BOTS_SESSIONS, cfg[bot])]
       IN  /\ call \notin calls
           /\ calls' = calls \cup {call}
    /\ UNCHANGED <<cfg, phase, idx, BOTS_SESSIONS, clients, service, rendering>>

\* the request of a call ends
call_returns(call) ==
    /\ call \in calls
    /\ calls' = calls \ {call}
    /\ UNCHANGED <<cfg, phase, idx, BOTS_SESSIONS, clients, service, rendering>>

\* dp.start_polling(*bots) returns: polling has stopped; the handler tasks
\* the dispatcher created for the updates are not awaited and not cancelled
polling_returns ==
    /\ phase = "polling"
    /\ phase' = "stopped"
    /\ UNCHANGED <<cfg, idx, BOTS_SESSIONS, clients, calls, service, rendering>>

\* await notification_server.shutdown()
notification_server_shutdown ==
    /\ phase = "stopped"
    /\ phase' = "closing"
    /\ idx' = 0
    /\ UNCHANGED <<cfg, BOTS_SESSIONS, clients, calls, service, rendering>>

\* one turn of the loop over BOTS_SESSIONS.values(): async_client.aclose()
aclose ==
    /\ phase = "closing"
    /\ idx < Len(BOTS_SESSIONS)
    /\ clients' = [clients EXCEPT ![BOTS_SESSIONS[idx + 1].client].aclose =
                                      @ + 1]
    /\ idx' = idx + 1
    /\ UNCHANGED <<cfg, phase, BOTS_SESSIONS, calls, service, rendering>>

\* the loop is over: njordr_service() returns
service_returns ==
    /\ phase = "closing"
    /\ idx = Len(BOTS_SESSIONS)
    /\ phase' = "done"
    /\ UNCHANGED <<cfg, idx, BOTS_SESSIONS, clients, calls, service, rendering>>

NextLife ==
    \/ CreateSession
    \/ start_polling
    \/ \E b \in 1..MaxBots, u \in Users : make_service_call(b, u)
    \/ \E c \in calls : call_returns(c)
    \/ polling_returns
    \/ notification_server_shutdown
    \/ aclose
    \/ service_returns

SpecLife == InitLife /\ [][NextLife]_vars

(* ====================================================================== *)
(* Properties                                                             *)
(* ====================================================================== *)

\* C1: two updates of the same (backend, user) pair never interleave their
\* read -> derive action -> call -> write steps: the cursor a button click
\* commits is the one derived from the cursor that is stored when it commits
\* (no other update of the pair has committed since the click read it), so
\* two clicks always end in the result of one of the two serial orders.
C1_Serialized ==
    [][ ( /\ finished' # finished
          /\ finished'.kind = "callback_query"
          /\ finished'.state_data # None )
        => store'[finished'.key] =
               aenter_url(fs, store[finished'.key], finished'.new_url, TRUE)
      ]_vars

\* an absolute normalized path: "/" alone, or "/"-separated pieces none of
\* which is empty, "." or ".."
Normalized(s) ==
    /\ IsAbs(s)
    /\ \/ s = <<SEP>>
       \/ \A i \in 2..Len(Split(s)) : Split(s)[i] \notin {<<>>, CURDIR, PARDIR}

\* C2: after any sequence of start commands, messages and button clicks the
\* cursor stored for a user is an absolute normalized path: it starts with
\* "/", has no "." or ".." segment, and no repeated or trailing slash unless
\* it is exactly "/".
C2_CursorNormalized ==
    \A k \in Keys : store[k] # None => Normalized(store[k])

\* a click on ".." has just ended with the cursor clamped at the root
C2_Witness ==
    /\ finished.kind = "callback_query"
    /\ finished.new_url = PARDIR
    /\ finished.state_data = <<SEP>>
    /\ store[finished.key] = <<SEP>>

\* the results tests/test_url_handler.py expects from an empty store
RootFragments ==
    { <<>>, <<"/">>, <<DOT>>, <<"/", "/", "/", "/", "/">>,
      <<DOT, DOT, "/", DOT, DOT, "/">>,
      <<"/", "hello">>,
      <<"/", "hello", DOT, "com", "/">>,
      <<"/", "hello", DOT, "com", "/", "abc">> }

RootResult(f) ==
    CASE f = <<"/", "hello">> -> <<"/", "hello">>
      [] f = <<"/", "hello", DOT, "com", "/">> -> <<"/", "hello", DOT, "com">>
      [] f = <<"/", "hello", DOT, "com", "/", "abc">> ->
             <<"/", "hello", DOT, "com", "/", "abc">>
      [] OTHER -> <<SEP>>

\* C3: with an empty store and prev_url_required = False, UrlStateHandler
\* yields "/" for "", "/", ".", "/////" and "../../", "/hello" for "/hello",
\* "/hello.com" for "/hello.com/" and "/hello.com/abc" for "/hello.com/abc",
\* whatever the working directory; after the exit the stored url is the
\* value that was yielded.
C3_RootTable ==
    /\ \A r \in Running :
           ( /\ r.kind = "test" /\ r.pc = "exit"
             /\ ~r.prev_url_required
             /\ store[r.key] = None
             /\ r.new_url \in RootFragments )
           => r.state_data = RootResult(r.new_url)
    /\ (finished.kind = "test" /\ finished.pc = "returned")
           => store[finished.key] = finished.state_data

\* p with its last segment removed
Parent(p) ==
    AsPosix(IF Parts(p) = <<>> THEN <<>>
            ELSE SubSeq(Parts(p), 1, Len(Parts(p)) - 1))

\* fragments that are one relative segment
SingleSegments == { <<"abc">>, <<"bin">> }

\* C4: with a previous cursor p required and present, a relative single
\* segment f yields p + "/" + f, "." yields p, ".." yields p without its last
\* segment, and ".." on "/" yields "/".
C4_JoinSemantics ==
    \A r \in Running :
        ( /\ r.kind = "test" /\ r.pc = "exit"
          /\ r.prev_url_required
          /\ store[r.key] # None )
        => LET p == store[r.key]
           IN  /\ r.new_url \in SingleSegments
                     => r.state_data =
                            (IF p = <<SEP>> THEN p ELSE p \o <<SEP>>)
                                \o r.new_url
               /\ r.new_url = CURDIR => r.state_data = p
               /\ r.new_url = PARDIR => r.state_data = Parent(p)

\* C5: applying the empty fragment to a cursor that normalization has stored
\* leaves it as it is: normalize(normalize(p, f), "") = normalize(p, f).
C5_Idempotent ==
    \A r \in Running :
        ( /\ r.kind = "test" /\ r.pc = "exit"
          /\ delivered = 2 )
        => r.state_data = store[r.key]

\* the empty fragment has been applied to a stored "/hello.com/abc"
C5_Witness ==
    \E r \in Running :
        /\ r.kind = "test" /\ r.pc = "exit"
        /\ delivered = 2
        /\ r.new_url = <<>>
        /\ r.state_data = <<"/", "hello", DOT, "com", "/", "abc">>

\* C6: a message or click handler that finds no cursor in the store ends in
\* the missing-cursor error there and then: the store is left as it was and
\* no backend request is made for the update.
C6_MissingCursor ==
    [][ \A r \in Running :
          ( /\ r.pc = "enter"
            /\ r.kind \in {"message", "callback_query"}
            /\ store[r.key] = None
            /\ CopiesIn(r, tasks') < CopiesIn(r, tasks) )
          => /\ finished' = [r EXCEPT !.pc = "raised", !.exc = "ValueError"]
             /\ finished'.request = NoRequest
             /\ store' = store
      ]_vars

\* a free-text message has just failed on the missing cursor
C6_Witness ==
    /\ finished.kind = "message"
    /\ finished.pc = "raised"
    /\ finished.exc = "ValueError"
    /\ finished.request = NoRequest
    /\ store[finished.key] = None

\* C7: a message or click that finds no cursor ends with the generic error
\* reply sent to the user, not with an exception leaving the handler.
C7_MissingCursorReply ==
    (finished.kind \in {"message", "callback_query"} /\ finished.exc = "ValueError")
        => /\ finished.pc = "returned"
           /\ finished.reply.text = INTERNAL_ERROR

\* C8: whatever the update kind, a transport failure of the backend call
\* (connect error or timeout) ends with the "Internal error" reply sent and
\* no exception leaving the handler.
C8_TransportFailureReply ==
    finished.outcome \in {"ConnectError", "TimeoutException"}
        => /\ finished.pc = "returned"
           /\ finished.reply.text = INTERNAL_ERROR

\* C9: the cursor computed when an update is resolved is stored whatever the
\* backend call ends in: when the handler has ended, the stored cursor is
\* the new one.
C9_CursorCommitted ==
    finished.outcome # "none"
        => store[finished.key] = finished.state_data

\* a click on "/settings" whose call timed out has moved the cursor
C9_Witness ==
    /\ finished.kind = "callback_query"
    /\ finished.outcome = "TimeoutException"
    /\ finished.pc = "raised"
    /\ finished.state_data = <<"/", "settings">>
    /\ store[finished.key] = <<"/", "settings">>

SETTINGS == [method |-> "get", endpoint |-> <<"/", "settings">>, data |-> None]

\* C10: a click carrying {get, "/settings", null} for a user who has a cursor
\* stores "/settings" and sends one GET for "/settings" to the user's
\* backend; the request path of any click is the cursor stored after it.
C10_ClickRequest ==
    (finished.kind = "callback_query" /\ finished.state_data # None)
        => /\ finished.request.path = store[finished.key]
           /\ finished.request.method = finished.action.method
           /\ finished.request.bot = finished.key[1]
           /\ finished.action = SETTINGS
                 => /\ store[finished.key] = <<"/", "settings">>
                    /\ finished.request =
                           [method |-> "get", bot |-> finished.key[1],
                            path |-> <<"/", "settings">>,
                            assume_role |-> <<"tg:", finished.key[2]>>,
                            data |-> None]

\* a click on "/settings" has ended after its GET
C10_Witness ==
    /\ finished.kind = "callback_query"
    /\ finished.action = SETTINGS
    /\ finished.request.method = "get"
    /\ finished.request.path = <<"/", "settings">>
    /\ store[finished.key] = <<"/", "settings">>

\* C11: a free-text message of a user whose stored cursor is c sends a POST
\* to c (appended to the base url) with the message text as its payload, and
\* when its handler ends, whatever the call ended in, the stored cursor of
\* the user is c, the cursor the handler read.
C11_MessageKeepsCursor ==
    [][ /\ \A r \in Running :
              ( /\ r.kind = "message"
                /\ r.pc = "enter"
                /\ store[r.key] # None
                /\ CopiesIn(r, tasks') < CopiesIn(r, tasks) )
              => \E q \in BagToSet(tasks') :
                     /\ q.kind = "message"
                     /\ q.key = r.key
                     /\ q.state_data = store[r.key]
                     /\ q.request.method = "post"
                     /\ q.request.path = store[r.key]
                     /\ q.request.data = r.action.data
                     /\ q.request.data \in Texts
        /\ ( /\ finished' # finished
             /\ finished'.kind = "message"
             /\ finished'.outcome # "none" )
           => /\ finished'.request.path = finished'.state_data
              /\ store'[finished'.key] = finished'.state_data
      ]_vars

C11_Witness ==
    /\ finished.kind = "message"
    /\ finished.outcome = "ConnectError"
    /\ finished.request.method = "post"
    /\ finished.state_data = <<"/", "settings">>
    /\ store[finished.key] = <<"/", "settings">>

\* C12: a start command sends a GET without payload to the root endpoint "/"
\* and leaves "/" as the stored cursor, whatever was stored before.
C12_StartAtRoot ==
    (finished.kind = "start" /\ finished.outcome # "none")
        => /\ finished.request.method = "get"
           /\ finished.request.data = None
           /\ finished.request.path = <<"/">>
           /\ store[finished.key] = <<"/">>

\* the size in bytes of a word of the strings of SpecKeyboard
ByteLenWord(w) ==
    CASE w \in {"{", "}", ":", ",", QUOTE, BSL, "/", ".", "a"} -> 1
      [] w = "hi" -> 2
      [] w \in {"get", "say"} -> 3
      [] w \in {"post", "data", "null"} -> 4
      [] w = "method" -> 6
      [] w \in {"endpoint", "settings"} -> 8
      [] w = LONG_SEGMENT -> 30

RECURSIVE ByteLenFrom(_, _)
ByteLenFrom(s, i) ==
    IF i > Len(s) THEN 0 ELSE ByteLenWord(s[i]) + ByteLenFrom(s, i + 1)

ByteLen(s) == ByteLenFrom(s, 1)

\* C13: generate_keyboard returns None for an empty list of props, and for
\* any other list a keyboard of exactly one button for each prop, in the
\* order of the list, each with the prop's text and the encoded payload of
\* the prop's action.
C13_KeyboardButtons ==
    keyboard.kind # "unset"
        => IF Len(props) = 0
           THEN keyboard.kind = "None"
           ELSE /\ keyboard.kind = "markup"
                /\ Len(keyboard.inline_keyboard) = Len(props)
                /\ \A i \in 1..Len(props) :
                       keyboard.inline_keyboard[i] =
                           << [text |-> props[i].text,
                               callback_data |->
                                   model_dump_json(props[i].action)] >>

\* C14: when the call of a start command ends in a response whose body is
\* the envelope {"msg": {"text": t, "actions": []}}, the handler returns
\* having sent one reply, with text t and without buttons.
C14_StartSuccessReply ==
    (finished.kind = "start" /\ finished.outcome = "response")
        => /\ finished.pc = "returned"
           /\ finished.reply = [via |-> "answer", text |-> ENVELOPE_TEXT,
                                reply_markup |-> None]

\* C15: when the backend answers with a malformed envelope the handler
\* returns having sent the "Internal error" reply, as it does after a
\* transport failure; no exception leaves the handler.
C15_MalformedEnvelopeReply ==
    finished.outcome = "malformed"
        => /\ finished.pc = "returned"
           /\ finished.exc = "none"
           /\ finished.reply.text = INTERNAL_ERROR

\* C16: when the encoded payload of some button is larger than 64 bytes,
\* generate_keyboard fails with a payload-too-large error and returns no
\* keyboard; a keyboard it returns has a button for every prop and no
\* payload above 64 bytes.  (Stated for props that all carry an action.)
C16_PayloadCap ==
    ( /\ keyboard.kind # "unset"
      /\ \A i \in 1..Len(props) : HasAttr(props[i], "action") )
        => /\ ( \E i \in 1..Len(props) :
                    ByteLen(model_dump_json(props[i].action)) > 64 )
               => ( /\ keyboard.kind = "raised"
                    /\ keyboard.exc = "PayloadTooLarge" )
           /\ keyboard.kind = "markup"
               => /\ Len(keyboard.inline_keyboard) = Len(props)
                  /\ \A i \in 1..Len(keyboard.inline_keyboard) :
                         ByteLen(keyboard.inline_keyboard[i][1].callback_data)
                             <= 64

\* C17: for an action with method get or post, any endpoint and data a
\* string or null, whose encoded payload is at most 64 bytes, decoding the
\* payload of the rendered button as a click does gives an action with the
\* same method, endpoint and data.
C17_RoundTrip ==
    clicked.pressed # 0
        => LET a == props[clicked.pressed].action
               payload ==
                   keyboard.inline_keyboard[clicked.pressed][1].callback_data
           IN  (a.method \in {"get", "post"} /\ ByteLen(payload) <= 64)
                   => /\ clicked.ok
                      /\ clicked.action.method = a.method
                      /\ clicked.action.endpoint = a.endpoint
                      /\ clicked.action.data = a.data

C17_Witness ==
    /\ clicked.pressed = 2
    /\ clicked.ok
    /\ clicked.action.method = "post"
    /\ clicked.action.data = <<"say", QUOTE, "hi", QUOTE>>
    /\ props[1].action.endpoint = <<"/", "settings">>

\* C18: a click whose payload names a method other than get and post is
\* rejected when the payload is decoded: the handler ends there, the stored
\* cursors are what they were, and no request is made for it; no handler
\* ever has a request with a method other than get and post.
C18_UnknownMethodRejected ==
    [][ /\ \A r \in Running : r.request.method \in {"get", "post", "none"}
        /\ ( /\ finished' # finished
             /\ finished'.kind = "callback_query"
             /\ finished'.action.method \notin {"get", "post", "none"} )
           => /\ finished'.exc = "ValidationError"
              /\ finished'.request = NoRequest
              /\ store' = store
      ]_vars

C18_Witness ==
    /\ finished.kind = "callback_query"
    /\ finished.action.method = "delete"
    /\ finished.exc = "ValidationError"
    /\ store[finished.key] = <<"/", "settings">>

\* C19: once startup is over the session table has a session for the url of
\* every configured bot; every call in flight, of any user, is on the
\* session the table holds for its backend, so calls of one backend share
\* one session; no call is made during startup, and no session is created
\* or replaced after startup.
C19_OneSessionPerBackend ==
    /\ [](phase = "startup" => calls = {})
    /\ [](phase # "startup"
             => /\ \A b \in 1..Len(cfg) : HasSession(BOTS_SESSIONS, cfg[b])
                /\ \A c \in calls :
                       \E i \in 1..Len(BOTS_SESSIONS) :
                           /\ BOTS_SESSIONS[i].url = cfg[c.bot]
                           /\ BOTS_SESSIONS[i].client = c.client
                /\ \A c, d \in calls :
                       cfg[c.bot] = cfg[d.bot] => c.client = d.client)
    /\ [][ phase # "startup"
             => /\ BOTS_SESSIONS' = BOTS_SESSIONS
                /\ Len(clients') = Len(clients) ]_vars

C19_Witness ==
    /\ phase = "polling"
    /\ \E c, d \in calls :
           /\ c.user # d.user
           /\ c.bot # d.bot
           /\ c.client = d.client

\* C20: when shutdown is over every session created at startup has been
\* closed exactly once, whether it was used or not and also when two bots
\* have the same url.
C20_ClosedOnce ==
    phase = "done"
        => \A i \in 1..Len(clients) : clients[i].aclose = 1

\* C21: sessions are closed only after polling has stopped and after every
\* handler in flight has ended: no session is closed while the service is
\* starting or polling, and no call is ever in flight on a session that has
\* been closed.
C21_ShutdownOrdered ==
    /\ \A i \in 1..Len(clients) :
           clients[i].aclose > 0 => phase \in {"closing", "done"}
    /\ \A c \in calls : clients[c.client].aclose = 0

\* C22: an update causes at most one backend request and at most one reply
\* to the user; a call that fails (connect error or timeout) is not made
\* again and the user gets exactly one reply, which reports the failure.
C22_OneRequestOneReply ==
    /\ \A r \in Running \cup {finished} :
           r.requests <= 1 /\ r.replies <= 1
    /\ finished.outcome \in {"ConnectError", "TimeoutException"}
           => /\ finished.requests = 1
              /\ finished.replies = 1
              /\ finished.reply.text = INTERNAL_ERROR

\* C23: every backend request carries the header assume_role with the value
\* "tg:" followed by the id of the user whose update the handler serves;
\* also when handlers of different users have requests in flight on the
\* session of one bot at the same time, none carries the other user's id.
C23_AssumeRole ==
    \A r \in Running \cup {finished} :
        r.request # NoRequest
            => /\ r.request.assume_role = <<"tg:", r.key[2]>>
               /\ \A q \in Running :
                      ( /\ q.request # NoRequest
                        /\ q.key[1] = r.key[1]
                        /\ q.key[2] # r.key[2] )
                      => q.request.assume_role # r.request.assume_role

\* requests of two users are in flight on the session of one bot
C23_Witness ==
    \E r, q \in Running :
        /\ r.pc = "await"
        /\ q.pc = "await"
        /\ r.key[1] = q.key[1]
        /\ r.key[2] # q.key[2]
        /\ r.request.assume_role = <<"tg:", 1>>
        /\ q.request.assume_role = <<"tg:", 2>>

\* C24: a click without payload data is answered with "Internal error" and
\* nothing else: no cursor is read or written and no request is made; a
\* click whose message is not accessible is dropped: no reply, no change of
\* the store, no request.
C24_ClickWithoutData ==
    [][ /\ \A r \in Running :
              (r.pc = "answer" /\ CopiesIn(r, tasks') < CopiesIn(r, tasks))
                  => /\ store' = store
                     /\ finished'.key = r.key
                     /\ finished'.update = r.update
        /\ \A q \in BagToSet(tasks') :
              (q.pc = "answer" /\ CopiesIn(q, tasks') > CopiesIn(q, tasks))
                  => store' = store
        /\ ( /\ finished' # finished
             /\ finished'.update \in {"no_data", "inaccessible"} )
           => /\ store' = store
              /\ finished'.pc = "returned"
              /\ finished'.state_data = None
              /\ finished'.request = NoRequest
              /\ finished'.requests = 0
              /\ finished'.reply =
                     IF finished'.update = "no_data"
                     THEN [via |-> "answer", text |-> INTERNAL_ERROR,
                           reply_markup |-> None]
                     ELSE NoReply
              /\ finished'.replies =
                     IF finished'.update = "no_data" THEN 1 ELSE 0
      ]_vars

\* a click without payload of a user who has a cursor has been answered
C24_Witness ==
    /\ finished.update = "no_data"
    /\ finished.reply.text = INTERNAL_ERROR
    /\ store[finished.key] = <<"/", "settings">>

====
